---- MODULE Spec2Model ----
(***************************************************************************)
(* A model of gptme's configuration (gptme/config.py), memory wrapper      *)
(* (gptme/memory.py) and chat orchestrator (gptme/chat.py, gptme/llm.py).  *)
(*                                                                         *)
(* Conventions.                                                            *)
(*   - A Python Optional is a sequence of length 0 (None / key absent) or  *)
(*     1 (the value).                                                      *)
(*   - A Python dict with string keys is a TLA+ function whose domain is   *)
(*     the set of keys present.                                            *)
(*   - temperature is counted in tenths (0.7 is 7), decay_rate in          *)
(*     ten-thousandths (0.0001 is 1): TLA+ has no floating point.          *)
(***************************************************************************)
EXTENDS Integers, Sequences, FiniteSets, TLC

VARIABLES
    configFile,      \* the file at config_path: status and parsed content
    environ,         \* os.environ, the two API key variables
    DEFAULT_CONFIG,  \* the module-level dict (its nested dicts are mutable)
    cfg,             \* the Config object built last (Optional)
    config_instance, \* the module-level _config_instance (Optional)
    ctorIn,          \* history: what the last Config(...) call read and did
    saved,           \* history: the object cfg.save() has just written
    roundTrip,       \* history: a save() directly followed by Config()
    ops,             \* number of operations performed
    setCall,         \* history: the set_config_value call just made
    memCfg,          \* the Config the chat and the memory managers are built with
    historyFile,     \* memory/interaction_history.json: the stored interactions
    managers,        \* the GPTMEMemoryManager objects
    added,           \* history: every interaction added, in order
    last,            \* history: the last memory or chat operation and its result
    fmtIn,           \* the context handed to format_context_for_prompt
    fmtOut,          \* history: the text it returned, and for which argument
    llmObj,          \* the LLM object built last: its provider, or the error raised
    strm,            \* the generator LLM.complete(prompt, stream=True) returned
    session          \* history: the last call of chat(...) and what it did

configVars ==
    <<configFile, environ, DEFAULT_CONFIG, cfg, config_instance, ctorIn, saved,
      roundTrip, ops, setCall>>

memVars == <<memCfg, historyFile, managers, added, last>>

fmtVars == <<fmtIn, fmtOut>>

llmVars == <<llmObj, strm, session>>

vars ==
    <<configFile, environ, DEFAULT_CONFIG, cfg, config_instance, ctorIn, saved,
      roundTrip, ops, setCall, memCfg, historyFile, managers, added, last,
      fmtIn, fmtOut, llmObj, strm, session>>

-----------------------------------------------------------------------------
(* Python values *)

None == <<>>

Some(v) == <<v>>

\* truthiness of an Optional[str]: None and "" are falsy
TruthyStr(o) == o # None /\ o[1] # ""

\* truthiness of an Optional[number]: None and 0 are falsy
TruthyNum(o) == o # None /\ o[1] # 0

\* a or b, on Optional[str]
OrStr(a, b) == IF TruthyStr(a) THEN a ELSE b

\* a or b, on Optional[number]
OrNum(a, b) == IF TruthyNum(a) THEN a ELSE b

EmptyDict == [k \in {} |-> TRUE]

\* {**a, **b}
DictMerge(a, b) ==
    [k \in DOMAIN a \cup DOMAIN b |-> IF k \in DOMAIN b THEN b[k] ELSE a[k]]

\* d.get(key, default) on a dict whose values are Optionals of one type
DictGet(d, key, default) == IF d[key] = None THEN default ELSE d[key][1]

\* d[key] = value
DictSet(d, key, value) ==
    [k \in DOMAIN d \cup {key} |-> IF k = key THEN value ELSE d[k]]

-----------------------------------------------------------------------------
(* gptme/config.py *)

MemoryKeys ==
    {"enabled", "storage_type", "similarity_threshold", "max_context_window",
     "decay_rate"}

DefaultMemory ==
    [enabled |-> TRUE, storage_type |-> "json", similarity_threshold |-> 40,
     max_context_window |-> 5, decay_rate |-> 1]

DefaultPrompt == [about_user |-> "You are interacting with a human programmer."]

\* The value DEFAULT_CONFIG is bound to when the module is imported.
InitialDefaultConfig ==
    [openai_api_key |-> "", anthropic_api_key |-> "", model |-> "gpt-4",
     temperature |-> 7, max_tokens |-> 2000, memory |-> DefaultMemory,
     env |-> EmptyDict, prompt |-> DefaultPrompt]

\* A nested value of a loaded config dict: absent, not a table, the very
\* dict object DEFAULT_CONFIG holds ("default", after the shallow copy), or
\* a dict of its own.
Absent == [kind |-> "absent", val |-> EmptyDict]

NotADict == [kind |-> "scalar", val |-> EmptyDict]

SharedDefault == [kind |-> "default", val |-> EmptyDict]

Own(d) == [kind |-> "own", val |-> d]

\* DEFAULT_CONFIG.copy(): a shallow copy. The scalars are copied, the nested
\* dicts are shared with DEFAULT_CONFIG.
ShallowCopyDefaults(defaults) ==
    [openai_api_key |-> Some(defaults.openai_api_key),
     anthropic_api_key |-> Some(defaults.anthropic_api_key),
     model |-> Some(defaults.model),
     temperature |-> Some(defaults.temperature),
     max_tokens |-> Some(defaults.max_tokens),
     memory |-> SharedDefault, env |-> SharedDefault, prompt |-> SharedDefault]

\* tomlkit.load: raises on a malformed document, else the parsed table.
TomlLoad(file) ==
    IF file.status = "malformed"
    THEN [raised |-> TRUE, val |-> file.content]
    ELSE [raised |-> FALSE, val |-> file.content]

\* _load_config without its except clause: a parse error escapes
load_config_no_catch(file, defaults) ==
    IF file.status = "missing"
    THEN [raised |-> FALSE, val |-> ShallowCopyDefaults(defaults)]
    ELSE TomlLoad(file)

\* Config._load_config
Config_load_config(file, defaults) ==
    IF file.status = "missing"
    THEN [raised |-> FALSE, val |-> ShallowCopyDefaults(defaults)]
    ELSE LET parsed == TomlLoad(file)
         IN  IF parsed.raised
             THEN [raised |-> FALSE, val |-> ShallowCopyDefaults(defaults)]
             ELSE parsed

\* The dict a nested value of a loaded config denotes (following the alias).
Deref(ref, shared) == IF ref.kind = "default" THEN shared ELSE ref.val

\* self.config.get("memory", {}), then `x if isinstance(x, dict) else {}`
ConfigMemoryDict(config, defaults) ==
    IF config.memory.kind \in {"default", "own"}
    THEN Deref(config.memory, defaults.memory)
    ELSE EmptyDict

\* memory_config or {}
MemoryConfigOrEmpty(memory_config) ==
    IF memory_config = None \/ DOMAIN memory_config[1] = {}
    THEN EmptyDict
    ELSE memory_config[1]

\* a merge in which the file's memory block overrides the constructor's
MergeMemoryFileWins(config, memory_config, defaults) ==
    DictMerge(DictMerge(defaults.memory, MemoryConfigOrEmpty(memory_config)),
              ConfigMemoryDict(config, defaults))

\* the memory merge of Config.__init__
MergeMemory(config, memory_config, defaults) ==
    DictMerge(DictMerge(defaults.memory, ConfigMemoryDict(config, defaults)),
              MemoryConfigOrEmpty(memory_config))

ResolveOpenaiKey(arg, env, config) ==
    OrStr(OrStr(arg, env.OPENAI_API_KEY),
          Some(DictGet(config, "openai_api_key", "")))[1]

ResolveAnthropicKey(arg, env, config) ==
    OrStr(OrStr(arg, env.ANTHROPIC_API_KEY),
          Some(DictGet(config, "anthropic_api_key", "")))[1]

ResolveModel(arg, config, defaults) ==
    OrStr(arg, Some(DictGet(config, "model", defaults.model)))[1]

ResolveTemperature(arg, config, defaults) ==
    OrNum(arg, Some(DictGet(config, "temperature", defaults.temperature)))[1]

ResolveMaxTokens(arg, config, defaults) ==
    OrNum(arg, Some(DictGet(config, "max_tokens", defaults.max_tokens)))[1]

\* self.config.get("prompt", DEFAULT_CONFIG["prompt"])
ResolvePrompt(config) ==
    IF config.prompt.kind = "absent" THEN SharedDefault ELSE config.prompt

\* Config.__init__: the object it builds, or the exception it lets out.
Config_init(args, env, file, defaults) ==
    LET loaded == Config_load_config(file, defaults)
        config == loaded.val
    IN  IF loaded.raised
        THEN [raised |-> TRUE, obj |-> None]
        ELSE [raised |-> FALSE,
              obj |-> Some(
                [config |-> config,
                 openai_api_key |-> ResolveOpenaiKey(args.openai_api_key, env, config),
                 anthropic_api_key |->
                     ResolveAnthropicKey(args.anthropic_api_key, env, config),
                 model |-> ResolveModel(args.model, config, defaults),
                 temperature |-> ResolveTemperature(args.temperature, config, defaults),
                 max_tokens |-> ResolveMaxTokens(args.max_tokens, config, defaults),
                 memory |-> MergeMemory(config, args.memory_config, defaults),
                 prompt |-> ResolvePrompt(config)])]

\* tomlkit.dump then the file's parsed content: every nested dict becomes a
\* table of the document, a dict of its own when the file is loaded again.
TomlDump(config_dict) ==
    [openai_api_key |-> Some(config_dict.openai_api_key),
     anthropic_api_key |-> Some(config_dict.anthropic_api_key),
     model |-> Some(config_dict.model),
     temperature |-> Some(config_dict.temperature),
     max_tokens |-> Some(config_dict.max_tokens),
     memory |-> Own(config_dict.memory),
     env |-> Own(config_dict.env),
     prompt |-> Own(config_dict.prompt)]

\* self.config.get("env", {})
ConfigEnvDict(config, defaults) ==
    IF config.env.kind = "absent" THEN EmptyDict ELSE Deref(config.env, defaults.env)

\* a save that writes the loaded dict's memory block, not self.memory
Config_save_loaded_memory(c, defaults) ==
    [status |-> "present",
     content |-> TomlDump(
        [openai_api_key |-> c.openai_api_key,
         anthropic_api_key |-> c.anthropic_api_key,
         model |-> c.model,
         temperature |-> c.temperature,
         max_tokens |-> c.max_tokens,
         memory |-> ConfigMemoryDict(c.config, defaults),
         env |-> ConfigEnvDict(c.config, defaults),
         prompt |-> Deref(c.prompt, defaults.prompt)])]

\* Config.save: the file it leaves at config_path
Config_save(c, defaults) ==
    [status |-> "present",
     content |-> TomlDump(
        [openai_api_key |-> c.openai_api_key,
         anthropic_api_key |-> c.anthropic_api_key,
         model |-> c.model,
         temperature |-> c.temperature,
         max_tokens |-> c.max_tokens,
         memory |-> c.memory,
         env |-> ConfigEnvDict(c.config, defaults),
         prompt |-> Deref(c.prompt, defaults.prompt)])]

\* The memory_* properties of Config.
memory_enabled(c) ==
    IF "enabled" \in DOMAIN c.memory THEN c.memory.enabled ELSE TRUE

memory_storage_type(c) ==
    IF "storage_type" \in DOMAIN c.memory THEN c.memory.storage_type ELSE "json"

memory_similarity_threshold(c) ==
    IF "similarity_threshold" \in DOMAIN c.memory
    THEN c.memory.similarity_threshold ELSE 40

memory_max_context_window(c) ==
    IF "max_context_window" \in DOMAIN c.memory
    THEN c.memory.max_context_window ELSE 5

memory_decay_rate(c) ==
    IF "decay_rate" \in DOMAIN c.memory THEN c.memory.decay_rate ELSE 1

-----------------------------------------------------------------------------
(* gptme/memory.py over the memory subsystem (memoripy)                     *)
(*                                                                         *)
(* A text is [full, cur]: the content cur of a message or of a response    *)
(* (full = FALSE), or the prompt Chat.get_response builds around the       *)
(* message content cur, f"{context_str}\n\nCurrent message: {cur}"         *)
(* (full = TRUE); LLM.summarize likewise builds "Summarize this:\n{cur}".  *)

Plain(c) == [full |-> FALSE, cur |-> c]

ManagerIds == {"chat", "llm", "manager1", "manager2"}

NoManager == [alive |-> FALSE, storage |-> "none", mem |-> <<>>, born |-> 0]

\* a manager whose storage is always the transient one
init_in_memory_only(config, nAdded) ==
    [alive |-> TRUE, storage |-> "in_memory", mem |-> <<>>, born |-> nAdded]

\* GPTMEMemoryManager.__init__: JSONStorage on the one history file for
\* storage_type "json", a new InMemoryStorage otherwise
GPTMEMemoryManager_init(config, nAdded) ==
    [alive |-> TRUE,
     storage |-> IF config.storage_type = "json" THEN "json" ELSE "in_memory",
     mem |-> <<>>,
     born |-> nAdded]

\* the interactions the storage of manager m holds
Store(m, file) == IF m.storage = "json" THEN file ELSE m.mem

\* MemoryManager.load_history(): (short_term, long_term)
load_history(m, file) == <<Store(m, file), <<>>>>

\* MemoryManager.add_interaction: the record is appended to the storage
StoreAppend(m, file, rec) ==
    IF m.storage = "json"
    THEN [file |-> Append(file, rec), mgr |-> m]
    ELSE [file |-> file, mgr |-> [m EXCEPT !.mem = Append(@, rec)]]

\* the relevance score the memory subsystem gives a stored interaction
Similarity(query, rec) == IF rec.prompt.cur = query THEN 90 ELSE 10

\* sequences of distinct elements of S
RECURSIVE Rankings(_)
Rankings(S) ==
    {<<>>} \cup UNION {{<<x>> \o r : r \in Rankings(S \ {x})} : x \in S}

\* MemoryManager.retrieve_relevant_interactions: every answer it may give,
\* as positions in the history: a ranking of interactions that are not
\* among the last exclude_last_n and reach the threshold
retrieve_relevant_interactions(history, query, similarity_threshold, exclude_last_n) ==
    Rankings({i \in 1..(Len(history) - exclude_last_n) :
                 Similarity(query, history[i]) >= similarity_threshold})

\* s[-n:] of Python for n >= 0 (s[-0:] is s[0:], the whole sequence)
SliceLast(s, n) ==
    IF n = 0 THEN s
    ELSE IF n >= Len(s) THEN s
    ELSE SubSeq(s, Len(s) - n + 1, Len(s))

\* short_term[-max_context:] if len(short_term) >= max_context else short_term
last_interactions(short_term, max_context) ==
    IF Len(short_term) >= max_context
    THEN SliceLast(short_term, max_context)
    ELSE short_term

\* the two context entries of one interaction
Entries(interaction) ==
    <<[role |-> "user", content |-> interaction.prompt],
      [role |-> "assistant", content |-> interaction.output]>>

RECURSIVE ContextOf(_)
ContextOf(interactions) ==
    IF interactions = <<>> THEN <<>>
    ELSE Entries(Head(interactions)) \o ContextOf(Tail(interactions))

\* a context that lists the relevance-retrieved interactions first
get_relevant_context_relevant_first(short_term, max_context, ranked) ==
    LET recent == last_interactions(short_term, max_context)
        relevant == [i \in 1..Len(ranked) |-> short_term[ranked[i]]]
    IN  [recent |-> recent,
         relevant |-> relevant,
         context |-> ContextOf(relevant) \o ContextOf(recent)]

\* GPTMEMemoryManager.get_relevant_context, given the memory subsystem's
\* answer `ranked` (positions in the history)
get_relevant_context(short_term, max_context, ranked) ==
    LET recent == last_interactions(short_term, max_context)
        relevant == [i \in 1..Len(ranked) |-> short_term[ranked[i]]]
    IN  [recent |-> recent,
         relevant |-> relevant,
         context |-> ContextOf(recent) \o ContextOf(relevant)]

\* GPTMEMemoryManager.add_interaction: the storage after the call
add_interaction(m, file, content, response) ==
    StoreAppend(m, file, [prompt |-> content, output |-> response])

\* max_context: int = 5, the default of get_relevant_context
DefaultMaxContext == 5

\* str(e) of the exception a step of get_response raises
Describe(failAt) ==
    CASE failAt = "context" -> "history unreadable"
      [] failAt = "provider" -> "provider unavailable"
      [] failAt = "llm_store" -> "embedding failed"
      [] failAt = "store" -> "embedding failed"
      [] OTHER -> ""

\* Chat.get_response(message), where the step failAt (if any) raises an
\* exception of class exc, the provider answers `response` and the memory
\* subsystem ranks `ranked`: what is raised or returned, and the storage left
get_response(content, failAt, exc, response, ranked, chat, llm, file) ==
    LET ctx == get_relevant_context(Store(chat, file), DefaultMaxContext, ranked)
        full_prompt == [full |-> TRUE, cur |-> content]
        \* LLM._chat_complete stores the interaction when it has a manager
        afterLlm == IF llm.alive
                    THEN add_interaction(llm, file, full_prompt, Plain(response))
                    ELSE [file |-> file, mgr |-> llm]
        afterChat == add_interaction(chat, afterLlm.file, Plain(content),
                                     Plain(response))
        unchanged == [file |-> file, chat |-> chat, llm |-> llm]
    IN  IF failAt \in {"context", "provider"} \/ (failAt = "llm_store" /\ llm.alive)
        THEN [raised |-> Some(exc), value |-> Describe(failAt), context |-> ctx.context,
              state |-> unchanged]
        ELSE IF failAt = "store"
        THEN [raised |-> Some(exc), value |-> Describe(failAt), context |-> ctx.context,
              state |-> [file |-> afterLlm.file, chat |-> chat, llm |-> afterLlm.mgr]]
        ELSE [raised |-> None, value |-> response, context |-> ctx.context,
              state |-> [file |-> afterChat.file, chat |-> afterChat.mgr,
                         llm |-> afterLlm.mgr]]

\* process_message without its try/except: every exception escapes
process_message_no_catch(got) ==
    IF got.raised = None
    THEN [returned |-> Some(<<got.value>>), propagated |-> None]
    ELSE [returned |-> None, propagated |-> got.raised]

\* Chat.process_message around the outcome `got` of get_response:
\* `except Exception` turns an Exception into the error text; a
\* KeyboardInterrupt is no Exception and escapes
process_message(got) ==
    IF got.raised = None
    THEN [returned |-> Some(<<got.value>>), propagated |-> None]
    ELSE IF got.raised = Some("Exception")
    THEN [returned |-> Some(<<"Error processing message: ", got.value>>),
          propagated |-> None]
    ELSE [returned |-> None, propagated |-> got.raised]

-----------------------------------------------------------------------------
(* format_context_for_prompt. A Python string is the sequence of its        *)
(* characters here, so that capitalize() and join() are computed.           *)

LowerCase ==
    <<"a", "b", "c", "d", "e", "f", "g", "h", "i", "j", "k", "l", "m",
      "n", "o", "p", "q", "r", "s", "t", "u", "v", "w", "x", "y", "z">>

UpperCase ==
    <<"A", "B", "C", "D", "E", "F", "G", "H", "I", "J", "K", "L", "M",
      "N", "O", "P", "Q", "R", "S", "T", "U", "V", "W", "X", "Y", "Z">>

\* str.upper() of one character
Upper(c) ==
    IF \E i \in DOMAIN LowerCase : LowerCase[i] = c
    THEN UpperCase[CHOOSE i \in DOMAIN LowerCase : LowerCase[i] = c]
    ELSE c

\* str.lower() of one character
Lower(c) ==
    IF \E i \in DOMAIN UpperCase : UpperCase[i] = c
    THEN LowerCase[CHOOSE i \in DOMAIN UpperCase : UpperCase[i] = c]
    ELSE c

\* str.upper()
upper(str) == [i \in 1..Len(str) |-> Upper(str[i])]

\* str.capitalize(): the first character upper-cased, the others lower-cased
capitalize(str) ==
    [i \in 1..Len(str) |-> IF i = 1 THEN Upper(str[i]) ELSE Lower(str[i])]

\* sep.join(strs)
RECURSIVE join(_, _)
join(sep, strs) ==
    IF strs = <<>> THEN <<>>
    ELSE IF Len(strs) = 1 THEN strs[1]
    ELSE strs[1] \o sep \o join(sep, Tail(strs))

\* a formatting that upper-cases the whole role
format_upper_role(context) ==
    join(<<"\n">>,
         [i \in 1..Len(context) |->
             upper(context[i].role) \o <<":", " ">> \o context[i].content])

\* GPTMEMemoryManager.format_context_for_prompt
format_context_for_prompt(context) ==
    join(<<"\n">>,
         [i \in 1..Len(context) |->
             capitalize(context[i].role) \o <<":", " ">> \o context[i].content])

-----------------------------------------------------------------------------
(* gptme/llm.py *)

\* the characters of the model names in use
Chars(name) ==
    CASE name = "" -> <<>>
      [] name = "gpt-4" -> <<"g", "p", "t", "-", "4">>
      [] name = "gpt-4o" -> <<"g", "p", "t", "-", "4", "o">>
      [] name = "gpt-3.5-turbo" ->
            <<"g", "p", "t", "-", "3", ".", "5", "-", "t", "u", "r", "b", "o">>
      [] name = "gpt-" -> <<"g", "p", "t", "-">>
      [] name = "gpt4" -> <<"g", "p", "t", "4">>
      [] name = "GPT-4" -> <<"G", "P", "T", "-", "4">>
      [] name = "my-gpt-4" -> <<"m", "y", "-", "g", "p", "t", "-", "4">>
      [] name = "claude-3-opus" ->
            <<"c", "l", "a", "u", "d", "e", "-", "3", "-", "o", "p", "u", "s">>
      [] name = "claude" -> <<"c", "l", "a", "u", "d", "e">>
      [] name = "llama-2" -> <<"l", "l", "a", "m", "a", "-", "2">>

\* str.startswith(prefix)
startswith(str, prefix) ==
    Len(str) >= Len(prefix) /\ SubSeq(str, 1, Len(prefix)) = prefix

\* a provider selection that takes every name that is not claude's for openai's
init_provider_default_openai(model) ==
    IF model = ""
    THEN [raised |-> Some("ValueError"), provider |-> None]
    ELSE IF startswith(Chars(model), <<"c", "l", "a", "u", "d", "e", "-">>)
    THEN [raised |-> None, provider |-> Some("anthropic")]
    ELSE [raised |-> None, provider |-> Some("openai")]

\* LLM._init_provider on config.model: the provider, or the error raised
LLM_init_provider(model) ==
    IF model = ""
    THEN [raised |-> Some("ValueError"), provider |-> None]
    ELSE IF startswith(Chars(model), <<"g", "p", "t", "-">>)
    THEN [raised |-> None, provider |-> Some("openai")]
    ELSE IF startswith(Chars(model), <<"c", "l", "a", "u", "d", "e", "-">>)
    THEN [raised |-> None, provider |-> Some("anthropic")]
    ELSE [raised |-> Some("ValueError"), provider |-> None]

\* no generator
NoStream ==
    [state |-> "none", prompt |-> "", fragments |-> <<>>, full_response |-> <<>>]

\* LLM.complete(prompt, stream = True): the generator _reply_stream(messages)
\* returns, not yet started; `fragments` is what the provider will stream
reply_stream(prompt, fragments) ==
    [state |-> "created", prompt |-> prompt, fragments |-> fragments,
     full_response |-> <<>>]

\* a generator step that stores the response so far with every chunk
reply_stream_store_each(g, m, file) ==
    IF Len(g.full_response) < Len(g.fragments)
    THEN LET chunks == Append(g.full_response, g.fragments[Len(g.full_response) + 1])
             w == IF m.alive
                  THEN add_interaction(m, file, Plain(g.prompt),
                                       Plain(join(<<>>, chunks)))
                  ELSE [file |-> file, mgr |-> m]
         IN  [gen |-> [g EXCEPT !.state = "suspended", !.full_response = chunks],
              file |-> w.file, mgr |-> w.mgr]
    ELSE [gen |-> [g EXCEPT !.state = "done"], file |-> file, mgr |-> m]

\* next(generator) on _reply_stream: the next chunk is collected and yielded,
\* or, the provider's stream exhausted, the interaction is stored and the
\* generator ends
reply_stream_next(g, m, file) ==
    IF Len(g.full_response) < Len(g.fragments)
    THEN [gen |-> [g EXCEPT !.state = "suspended",
                            !.full_response =
                                Append(@, g.fragments[Len(g.full_response) + 1])],
          file |-> file, mgr |-> m]
    ELSE LET w == IF m.alive
                  THEN add_interaction(m, file, Plain(g.prompt),
                                       Plain(join(<<>>, g.full_response)))
                  ELSE [file |-> file, mgr |-> m]
         IN  [gen |-> [g EXCEPT !.state = "done"], file |-> w.file, mgr |-> w.mgr]

\* LLM._chat_complete(messages): the provider answers `response`, and the
\* interaction (messages[-1], response) is stored when there is a manager
chat_complete(prompt, response, m, file) ==
    IF m.alive
    THEN add_interaction(m, file, prompt, Plain(response))
    ELSE [file |-> file, mgr |-> m]

\* a summarize that does not look at the token count
summarize_unchecked(content, tokens, context_limit, response, m, file) ==
    LET w == chat_complete([full |-> TRUE, cur |-> content], response, m, file)
    IN  [raised |-> None, returned |-> Some(response), calls |-> 1,
         file |-> w.file, mgr |-> w.mgr]

\* LLM.summarize(content), where len_tokens(messages) = tokens, the summary
\* model's context limit is context_limit and the provider answers
\* `response`; the user message stored is f"Summarize this:\n{content}"
summarize(content, tokens, context_limit, response, m, file) ==
    IF tokens > context_limit
    THEN [raised |-> Some("ValueError"), returned |-> None, calls |-> 0,
          file |-> file, mgr |-> m]
    ELSE LET w == chat_complete([full |-> TRUE, cur |-> content], response, m, file)
         IN  IF response = ""
             THEN \* assert summary
                  [raised |-> Some("AssertionError"), returned |-> None, calls |-> 1,
                   file |-> w.file, mgr |-> w.mgr]
             ELSE [raised |-> None, returned |-> Some(response), calls |-> 1,
                   file |-> w.file, mgr |-> w.mgr]

-----------------------------------------------------------------------------
(* gptme/chat.py: the function chat(...) *)

\* the parameters of Config.__init__ (self aside)
ConfigParams ==
    {"openai_api_key", "anthropic_api_key", "model", "temperature", "max_tokens",
     "data_dir", "memory_config"}

\* the keyword arguments chat() passes to Config
ChatKwargs ==
    {"model", "stream", "no_confirm", "interactive", "show_hidden",
     "workspace_path", "tool_allowlist"}

\* Config(**kwargs): a keyword that is no parameter raises TypeError before
\* the body of __init__ runs
Config_call(kwargs) ==
    IF kwargs \subseteq ConfigParams
    THEN [raised |-> None]
    ELSE [raised |-> Some("TypeError")]

\* the interactive loop over what input("> ") gives: lines, an interrupt, and
\* EOFError at the end of the input. A line may fail in the provider (the
\* error text is then the response) or be interrupted while the response is
\* being produced.
RECURSIVE interactive_loop(_)
interactive_loop(stdin) ==
    IF stdin = <<>> \/ Head(stdin).kind = "interrupt"
    THEN [dispatched |-> <<>>, printed |-> <<>>]
    ELSE LET line == Head(stdin)
             rest == interactive_loop(Tail(stdin))
         IN  IF line.text = ""
             THEN rest
             ELSE IF line.interrupted
             THEN [dispatched |-> <<line.text>>, printed |-> <<>>]
             ELSE [dispatched |-> <<line.text>> \o rest.dispatched,
                   printed |-> <<IF line.fails
                                 THEN <<"Error processing message: ", line.text>>
                                 ELSE <<"response to ", line.text>>
                               >> \o rest.printed]

\* chat(prompt_msgs, initial_msgs, ..., interactive, ...) with the standard
\* input stdin: what is raised, the messages dispatched through
\* process_message in order, the responses printed, whether the loop ran
chat_one_shot(prompt_msgs, initial_msgs, interactive, stdin) ==
    LET config == Config_call(ChatKwargs)
        loop == interactive_loop(stdin)
    IN  IF config.raised # None
        THEN [raised |-> config.raised, dispatched |-> <<>>, printed |-> <<>>,
              entered_loop |-> FALSE]
        ELSE IF interactive
        THEN [raised |-> None,
              dispatched |-> initial_msgs \o prompt_msgs \o loop.dispatched,
              printed |-> loop.printed, entered_loop |-> TRUE]
        ELSE [raised |-> None, dispatched |-> initial_msgs \o prompt_msgs,
              printed |-> <<>>, entered_loop |-> FALSE]

-----------------------------------------------------------------------------
(* The inputs of the configuration model *)

\* memory_config arguments: none, empty, partial (with a false and a 0), full
CustomMemory ==
    [enabled |-> FALSE, storage_type |-> "in_memory", similarity_threshold |-> 50,
     max_context_window |-> 10, decay_rate |-> 10]

PartialMemory == [enabled |-> FALSE, similarity_threshold |-> 0]

MemoryConfigArgs == {None, Some(EmptyDict), Some(PartialMemory), Some(CustomMemory)}

CtorArgs ==
    [openai_api_key : {None, Some(""), Some("sk-arg")},
     anthropic_api_key : {None, Some("sk-arg")},
     model : {None, Some("gpt-3.5-turbo")},
     temperature : {None, Some(0), Some(5)},
     max_tokens : {None, Some(100)},
     memory_config : MemoryConfigArgs]

NoArgs ==
    [openai_api_key |-> None, anthropic_api_key |-> None, model |-> None,
     temperature |-> None, max_tokens |-> None, memory_config |-> None]

Environs ==
    [OPENAI_API_KEY : {None, Some(""), Some("sk-env")},
     ANTHROPIC_API_KEY : {None, Some("sk-env")}]

FileMemory == [storage_type |-> "in_memory", max_context_window |-> 0]

\* what a user may have written into the config file
FileContents ==
    [openai_api_key : {None, Some("sk-file")},
     anthropic_api_key : {None, Some("sk-file")},
     model : {None, Some("claude-3-opus")},
     temperature : {None, Some(0), Some(3)},
     max_tokens : {None, Some(500)},
     memory : {Absent, NotADict, Own(FileMemory)},
     env : {Absent},
     prompt : {Absent}]

EmptyContent ==
    [openai_api_key |-> None, anthropic_api_key |-> None, model |-> None,
     temperature |-> None, max_tokens |-> None, memory |-> Absent,
     env |-> Absent, prompt |-> Absent]

ConfigFiles ==
    {[status |-> "missing", content |-> EmptyContent],
     [status |-> "malformed", content |-> EmptyContent]}
    \cup [status : {"present"}, content : FileContents]

-----------------------------------------------------------------------------
(* Rest states of the three parts *)

\* the configuration part at rest
ConfigIdle ==
    /\ configFile = [status |-> "missing", content |-> EmptyContent]
    /\ environ = [OPENAI_API_KEY |-> None, ANTHROPIC_API_KEY |-> None]
    /\ DEFAULT_CONFIG = InitialDefaultConfig
    /\ cfg = None
    /\ config_instance = None
    /\ ctorIn = None
    /\ saved = None
    /\ roundTrip = None
    /\ ops = 0
    /\ setCall = None

\* no formatting under way
FormatIdle ==
    /\ fmtIn = <<>>
    /\ fmtOut = None

\* no LLM object built
LlmIdle ==
    /\ llmObj = [op |-> "none"]
    /\ strm = NoStream
    /\ session = [op |-> "none"]

\* the memory and chat part at rest
MemoryIdle ==
    /\ memCfg = [enabled |-> TRUE, storage_type |-> "json"]
    /\ historyFile = <<>>
    /\ managers = [m \in ManagerIds |-> NoManager]
    /\ added = <<>>
    /\ last = [op |-> "none"]

-----------------------------------------------------------------------------
(* Config(...) on any file, environment and arguments *)

InitCtor ==
    /\ configFile \in ConfigFiles
    /\ environ \in Environs
    /\ DEFAULT_CONFIG = InitialDefaultConfig
    /\ cfg = None
    /\ config_instance = None
    /\ ctorIn = None
    /\ saved = None
    /\ roundTrip = None
    /\ ops = 0
    /\ setCall = None
    /\ MemoryIdle
    /\ FormatIdle
    /\ LlmIdle

\* cfg = Config(**args)
Construct(args) ==
    LET r == Config_init(args, environ, configFile, DEFAULT_CONFIG)
    IN  /\ cfg' = r.obj
        /\ ctorIn' = Some([args |-> args, env |-> environ, file |-> configFile,
                           defaults |-> DEFAULT_CONFIG, raised |-> r.raised])
        /\ roundTrip' = IF saved # None /\ args = NoArgs /\ ~r.raised
                        THEN Some([saved |-> saved[1], loaded |-> r.obj[1]])
                        ELSE None
        /\ saved' = None
        /\ ops' = ops + 1
        /\ setCall' = None
        /\ UNCHANGED <<configFile, environ, DEFAULT_CONFIG, config_instance>>
        /\ UNCHANGED <<memVars, fmtVars, llmVars>>

\* one construction per run
CtorOnce(args) == ops = 0 /\ Construct(args)

NextCtor == \E args \in CtorArgs : CtorOnce(args)

SpecCtor == InitCtor /\ [][NextCtor]_vars

\* C3: every scalar field is resolved by constructor argument > environment
\* variable > file value > default: a constructor value that was passed is
\* the resolved value, and for the API keys a set environment variable wins
\* over the file value when no constructor value was passed.
C3_PrecedenceChain ==
    (ctorIn # None /\ cfg # None) =>
        LET a == ctorIn[1].args
            e == ctorIn[1].env
            c == cfg[1]
        IN  /\ a.openai_api_key # None => c.openai_api_key = a.openai_api_key[1]
            /\ a.anthropic_api_key # None =>
                   c.anthropic_api_key = a.anthropic_api_key[1]
            /\ a.model # None => c.model = a.model[1]
            /\ a.temperature # None => c.temperature = a.temperature[1]
            /\ a.max_tokens # None => c.max_tokens = a.max_tokens[1]
            /\ (a.openai_api_key = None /\ e.OPENAI_API_KEY # None) =>
                   c.openai_api_key = e.OPENAI_API_KEY[1]
            /\ (a.anthropic_api_key = None /\ e.ANTHROPIC_API_KEY # None) =>
                   c.anthropic_api_key = e.ANTHROPIC_API_KEY[1]

\* the value the claim C4 gives key k of the memory block
ExpectedMemoryValue(k, in) ==
    LET mc == in.args.memory_config
        fm == in.file.content.memory
    IN  IF mc # None /\ k \in DOMAIN mc[1] THEN mc[1][k]
        ELSE IF in.file.status = "present" /\ fm.kind = "own" /\ k \in DOMAIN fm.val
             THEN fm.val[k]
             ELSE in.defaults.memory[k]

\* C4: the memory block is resolved key by key: the memory_config argument
\* wins where it has the key (also with a false or 0 value), else the file's
\* memory block, else the default; the memory_* properties return that value.
C4_MemoryKeyByKey ==
    (ctorIn # None /\ cfg # None) =>
        LET in == ctorIn[1]
            c == cfg[1]
        IN  /\ DOMAIN c.memory = MemoryKeys
            /\ \A k \in MemoryKeys : c.memory[k] = ExpectedMemoryValue(k, in)
            /\ memory_enabled(c) = ExpectedMemoryValue("enabled", in)
            /\ memory_storage_type(c) = ExpectedMemoryValue("storage_type", in)
            /\ memory_similarity_threshold(c) =
                   ExpectedMemoryValue("similarity_threshold", in)
            /\ memory_max_context_window(c) =
                   ExpectedMemoryValue("max_context_window", in)
            /\ memory_decay_rate(c) = ExpectedMemoryValue("decay_rate", in)

\* a partial memory_config (enabled = false, similarity_threshold = 0) over a
\* file that sets two other keys: each key comes from its own source
C4_Witness ==
    /\ ctorIn # None /\ cfg # None
    /\ ctorIn[1].args.memory_config = Some(PartialMemory)
    /\ ctorIn[1].file.status = "present"
    /\ ctorIn[1].file.content.memory = Own(FileMemory)
    /\ cfg[1].memory =
           [enabled |-> FALSE, storage_type |-> "in_memory",
            similarity_threshold |-> 0, max_context_window |-> 0, decay_rate |-> 1]

-----------------------------------------------------------------------------
(* The life of the configuration: objects are built, saved, changed by      *)
(* set_config_value, while the user edits the file and the environment.     *)

MaxOps == 3

LifeCtorArgs ==
    [openai_api_key : {None, Some("sk-arg")},
     anthropic_api_key : {None},
     model : {None, Some("gpt-3.5-turbo")},
     temperature : {None, Some(5)},
     max_tokens : {None},
     memory_config : {None, Some(PartialMemory)}]

FullContent ==
    [openai_api_key |-> Some("sk-file"), anthropic_api_key |-> Some("sk-file"),
     model |-> Some("claude-3-opus"), temperature |-> Some(0),
     max_tokens |-> Some(500), memory |-> Own(FileMemory), env |-> Absent,
     prompt |-> Absent]

LifeFiles ==
    {[status |-> "missing", content |-> EmptyContent],
     [status |-> "malformed", content |-> EmptyContent],
     [status |-> "present", content |-> EmptyContent],
     [status |-> "present", content |-> FullContent],
     [status |-> "present", content |-> [EmptyContent EXCEPT !.memory = NotADict]]}

InitLife ==
    /\ configFile \in LifeFiles
    /\ environ \in Environs
    /\ DEFAULT_CONFIG = InitialDefaultConfig
    /\ cfg = None
    /\ config_instance = None
    /\ ctorIn = None
    /\ saved = None
    /\ roundTrip = None
    /\ ops = 0
    /\ setCall = None
    /\ MemoryIdle
    /\ FormatIdle
    /\ LlmIdle

\* cfg.save()
Save ==
    /\ ops < MaxOps
    /\ cfg # None
    /\ configFile' = Config_save(cfg[1], DEFAULT_CONFIG)
    /\ saved' = Some([obj |-> cfg[1], env |-> environ])
    /\ roundTrip' = None
    /\ ops' = ops + 1
    /\ setCall' = None
    /\ UNCHANGED <<environ, DEFAULT_CONFIG, cfg, config_instance, ctorIn>>
    /\ UNCHANGED <<memVars, fmtVars, llmVars>>

\* os.environ[name] = value, or del os.environ[name] (value = None)
Setenv(name, value) ==
    /\ ops < MaxOps
    /\ environ[name] # value
    /\ environ' = [environ EXCEPT ![name] = value]
    /\ saved' = None
    /\ roundTrip' = None
    /\ ops' = ops + 1
    /\ setCall' = None
    /\ UNCHANGED <<configFile, DEFAULT_CONFIG, cfg, config_instance, ctorIn>>
    /\ UNCHANGED <<memVars, fmtVars, llmVars>>

\* the user removes, damages or rewrites the config file
EditFile(file) ==
    /\ ops < MaxOps
    /\ configFile # file
    /\ configFile' = file
    /\ saved' = None
    /\ roundTrip' = None
    /\ ops' = ops + 1
    /\ setCall' = None
    /\ UNCHANGED <<environ, DEFAULT_CONFIG, cfg, config_instance, ctorIn>>
    /\ UNCHANGED <<memVars, fmtVars, llmVars>>

\* get_config(): the singleton, built by Config() on first use
get_config ==
    IF config_instance = None
    THEN Config_init(NoArgs, environ, configFile, DEFAULT_CONFIG)
    ELSE [raised |-> FALSE, obj |-> config_instance]

\* set_config_value(key_path, value), key_path given as its parts
\* (key_path.split('.')), of length 1 or 2
set_config_value(parts, value) ==
    LET got == get_config
        c == got.obj[1]
        ref0 == c.config[parts[1]]
        ref == IF ref0.kind = "absent" THEN Own(EmptyDict) ELSE ref0
    IN  /\ ops < MaxOps
        /\ saved' = None
        /\ roundTrip' = None
        /\ ops' = ops + 1
        /\ setCall' = Some([parts |-> parts, value |-> value,
                            raised |-> got.raised
                                         \/ (Len(parts) = 2 /\ ref.kind = "scalar")])
        /\ UNCHANGED <<environ, cfg, ctorIn>>
        /\ UNCHANGED <<memVars, fmtVars, llmVars>>
        /\ IF got.raised
           THEN UNCHANGED <<configFile, DEFAULT_CONFIG, config_instance>>
           ELSE IF Len(parts) = 1
           THEN LET c2 == [c EXCEPT !.config[parts[1]] = Some(value)]
                IN  /\ config_instance' = Some(c2)
                    /\ configFile' = Config_save(c2, DEFAULT_CONFIG)
                    /\ UNCHANGED DEFAULT_CONFIG
           ELSE IF ref.kind = "scalar"
           THEN \* current[parts[-1]] = value raises TypeError: nothing is saved
                /\ config_instance' = got.obj
                /\ UNCHANGED <<configFile, DEFAULT_CONFIG>>
           ELSE IF ref.kind = "default"
           THEN \* current is the dict DEFAULT_CONFIG holds
                LET d2 == [DEFAULT_CONFIG EXCEPT
                              ![parts[1]] = DictSet(@, parts[2], value)]
                IN  /\ DEFAULT_CONFIG' = d2
                    /\ config_instance' = got.obj
                    /\ configFile' = Config_save(c, d2)
           ELSE LET c2 == [c EXCEPT !.config[parts[1]] =
                                       Own(DictSet(ref.val, parts[2], value))]
                IN  /\ config_instance' = Some(c2)
                    /\ configFile' = Config_save(c2, DEFAULT_CONFIG)
                    /\ UNCHANGED DEFAULT_CONFIG

\* cfg = Config(**args), within the run's budget of operations
LifeConstruct(args) == ops < MaxOps /\ Construct(args)

NextLife ==
    \/ \E args \in LifeCtorArgs : LifeConstruct(args)
    \/ Save
    \/ \E name \in {"OPENAI_API_KEY", "ANTHROPIC_API_KEY"} :
          \E value \in {None, Some("sk-env")} : Setenv(name, value)
    \/ \E file \in LifeFiles : EditFile(file)
    \/ set_config_value(<<"model">>, "gpt-4o")
    \/ set_config_value(<<"temperature">>, 9)
    \/ set_config_value(<<"memory", "enabled">>, FALSE)
    \/ set_config_value(<<"env", "OPENAI_API_KEY">>, "sk-set")

SpecLife == InitLife /\ [][NextLife]_vars

\* C5: constructing a Config never fails because of the config file, and
\* with the file missing or malformed, no constructor argument and no
\* environment variable, model, temperature, max_tokens and every memory
\* field equal the values of DEFAULT_CONFIG.
C5_FileNeverFails ==
    ctorIn # None =>
        LET in == ctorIn[1]
        IN  /\ ~in.raised
            /\ cfg # None
            /\ ( /\ in.file.status \in {"missing", "malformed"}
                 /\ in.args = NoArgs
                 /\ in.env.OPENAI_API_KEY = None
                 /\ in.env.ANTHROPIC_API_KEY = None )
               => /\ cfg[1].model = in.defaults.model
                  /\ cfg[1].temperature = in.defaults.temperature
                  /\ cfg[1].max_tokens = in.defaults.max_tokens
                  /\ cfg[1].memory = in.defaults.memory
                  /\ memory_enabled(cfg[1]) = in.defaults.memory.enabled
                  /\ memory_storage_type(cfg[1]) = in.defaults.memory.storage_type
                  /\ memory_similarity_threshold(cfg[1]) =
                         in.defaults.memory.similarity_threshold
                  /\ memory_max_context_window(cfg[1]) =
                         in.defaults.memory.max_context_window
                  /\ memory_decay_rate(cfg[1]) = in.defaults.memory.decay_rate

\* Config() has been built over a malformed file, without arguments or
\* environment variables
C5_Witness ==
    /\ ctorIn # None /\ cfg # None
    /\ ctorIn[1].file.status = "malformed"
    /\ ctorIn[1].args = NoArgs
    /\ ctorIn[1].env.OPENAI_API_KEY = None
    /\ ctorIn[1].env.ANTHROPIC_API_KEY = None
    /\ cfg[1].model = "gpt-4"
    /\ cfg[1].memory.enabled

\* C6 as stated: save() then Config() from the same file, the environment
\* unchanged in between, yields identical API keys, model, temperature,
\* max_tokens and memory block.
C6_RoundTrip ==
    roundTrip # None =>
        LET a == roundTrip[1].saved.obj
            b == roundTrip[1].loaded
        IN  /\ b.openai_api_key = a.openai_api_key
            /\ b.anthropic_api_key = a.anthropic_api_key
            /\ b.model = a.model
            /\ b.temperature = a.temperature
            /\ b.max_tokens = a.max_tokens
            /\ b.memory = a.memory

\* the API key a reload yields: the environment variable when it is set and
\* not empty, else the saved key
ReloadedKey(envValue, savedKey) ==
    IF envValue # None /\ envValue[1] # "" THEN envValue[1] ELSE savedKey

\* C6 amended: the round trip preserves model, temperature, max_tokens and
\* the memory block; it preserves an API key unless that key's environment
\* variable is set to a non-empty value, which the reloaded key then is.
C6_RoundTripUnlessEnv ==
    roundTrip # None =>
        LET a == roundTrip[1].saved.obj
            e == roundTrip[1].saved.env
            b == roundTrip[1].loaded
        IN  /\ b.openai_api_key = ReloadedKey(e.OPENAI_API_KEY, a.openai_api_key)
            /\ b.anthropic_api_key =
                   ReloadedKey(e.ANTHROPIC_API_KEY, a.anthropic_api_key)
            /\ b.model = a.model
            /\ b.temperature = a.temperature
            /\ b.max_tokens = a.max_tokens
            /\ b.memory = a.memory

\* a Config built with a key, a model and memory_config = {enabled: false}
\* has been saved and loaded again with no environment variable set
C6_Witness ==
    /\ roundTrip # None
    /\ roundTrip[1].saved.env.OPENAI_API_KEY = None
    /\ roundTrip[1].saved.obj.openai_api_key = "sk-arg"
    /\ roundTrip[1].saved.obj.model = "gpt-3.5-turbo"
    /\ ~roundTrip[1].saved.obj.memory.enabled
    /\ roundTrip[1].loaded.openai_api_key = "sk-arg"
    /\ ~roundTrip[1].loaded.memory.enabled

\* C20: after set_config_value(key_path, value) the value is stored in the
\* config file under the key path, and a Config loaded afterwards from that
\* file resolves the key to it (model, temperature, memory.enabled,
\* env.OPENAI_API_KEY).
C20_SetValuePersists ==
    (setCall # None /\ ~setCall[1].raised) =>
        LET parts == setCall[1].parts
            value == setCall[1].value
            file == configFile.content
            c == Config_init(NoArgs, environ, configFile, DEFAULT_CONFIG).obj[1]
        IN  /\ configFile.status = "present"
            /\ parts = <<"model">> =>
                  (file.model = Some(value) /\ c.model = value)
            /\ parts = <<"temperature">> =>
                  (file.temperature = Some(value) /\ c.temperature = value)
            /\ parts = <<"memory", "enabled">> =>
                  /\ file.memory.kind = "own"
                  /\ file.memory.val.enabled = value
                  /\ memory_enabled(c) = value
            /\ parts = <<"env", "OPENAI_API_KEY">> =>
                  /\ file.env.kind = "own"
                  /\ "OPENAI_API_KEY" \in DOMAIN file.env.val
                  /\ file.env.val.OPENAI_API_KEY = value
                  /\ ConfigEnvDict(c.config, DEFAULT_CONFIG).OPENAI_API_KEY = value

\* C22: after any sequence of Config constructions, set_config_value calls
\* and save calls, every value of DEFAULT_CONFIG, its nested memory, env and
\* prompt mappings included, equals its initial value.
C22_DefaultsNeverModified ==
    DEFAULT_CONFIG = InitialDefaultConfig

-----------------------------------------------------------------------------
(* The memory managers and the chat. Under Spec two GPTMEMemoryManager       *)
(* objects are built on one Config, interactions are added and contexts     *)
(* retrieved through them (as tests/test_memory.py does); under SpecChat a  *)
(* Chat is built and messages are processed (as examples/memory_demo.py).   *)

MaxHistory == 2

MaxChatHistory == 2

MaxContextArg == 2

Contents == {"a", "b"}

Responses == {"r"}

Init ==
    /\ ConfigIdle
    /\ memCfg \in [enabled : BOOLEAN, storage_type : {"json", "in_memory"}]
    /\ historyFile = <<>>
    /\ managers = [m \in ManagerIds |-> NoManager]
    /\ added = <<>>
    /\ last = [op |-> "none"]
    /\ FormatIdle
    /\ LlmIdle

\* the previous operation was a process_message that returned the error text
AfterError ==
    /\ last.op = "process"
    /\ last.failAt # "none"
    /\ last.propagated = None

\* Chat(config): LLM(config) builds a manager when memory is enabled, the
\* Chat always builds its own
Chat_init ==
    /\ ~managers["chat"].alive
    /\ managers' =
          [managers EXCEPT
             !["llm"] = IF memCfg.enabled
                        THEN GPTMEMemoryManager_init(memCfg, Len(added))
                        ELSE NoManager,
             !["chat"] = GPTMEMemoryManager_init(memCfg, Len(added))]
    /\ last' = [op |-> "chat_init"]
    /\ UNCHANGED <<memCfg, historyFile, added>>
    /\ UNCHANGED <<configVars, fmtVars, llmVars>>

\* managers[id] = GPTMEMemoryManager(config)
Manager_init(id) ==
    /\ ~managers[id].alive
    /\ managers' =
          [managers EXCEPT ![id] = GPTMEMemoryManager_init(memCfg, Len(added))]
    /\ last' = [op |-> "manager_init", mgr |-> id]
    /\ UNCHANGED <<memCfg, historyFile, added>>
    /\ UNCHANGED <<configVars, fmtVars, llmVars>>

\* managers[id].add_interaction(Message("user", content), response)
AddInteraction(id, content, response) ==
    LET m == managers[id]
        r == add_interaction(m, historyFile, Plain(content), Plain(response))
    IN  /\ m.alive
        /\ Len(Store(m, historyFile)) < MaxHistory
        /\ historyFile' = r.file
        /\ managers' = [managers EXCEPT ![id] = r.mgr]
        /\ added' = Append(added, [prompt |-> Plain(content),
                                   output |-> Plain(response)])
        /\ last' = [op |-> "add", mgr |-> id,
                    before |-> Store(m, historyFile),
                    after |-> Store(r.mgr, r.file),
                    fileBefore |-> historyFile, fileAfter |-> r.file]
        /\ UNCHANGED memCfg
        /\ UNCHANGED <<configVars, fmtVars, llmVars>>

\* managers[id].get_relevant_context(Message("user", query), max_context)
GetRelevantContext(id, query, max_context) ==
    LET m == managers[id]
        short_term == load_history(m, historyFile)[1]
        recent == last_interactions(short_term, max_context)
    IN  /\ m.alive
        /\ \E ranked \in retrieve_relevant_interactions(
                            short_term, query,
                            DefaultMemory.similarity_threshold, Len(recent)) :
              LET r == get_relevant_context(short_term, max_context, ranked)
              IN  last' = [op |-> "ctx", mgr |-> id, max_context |-> max_context,
                           history |-> short_term, ranked |-> ranked,
                           recent |-> r.recent, relevant |-> r.relevant,
                           context |-> r.context]
        /\ UNCHANGED <<memCfg, historyFile, managers, added>>
        /\ UNCHANGED <<configVars, fmtVars, llmVars>>

\* chat.process_message(Message("user", content))
ProcessMessage(content, failAt, exc, response) ==
    LET chat == managers["chat"]
        llm == managers["llm"]
        short_term == load_history(chat, historyFile)[1]
        recent == last_interactions(short_term, DefaultMaxContext)
    IN  /\ chat.alive
        /\ failAt = "none" <=> exc = "none"
        /\ failAt = "llm_store" => llm.alive
        /\ \E ranked \in retrieve_relevant_interactions(
                            short_term, content,
                            DefaultMemory.similarity_threshold, Len(recent)) :
              LET got == get_response(content, failAt, exc, response, ranked,
                                      chat, llm, historyFile)
                  out == process_message(got)
              IN  /\ Len(added) < 2 * MaxChatHistory
                  /\ Len(got.state.file) <= MaxChatHistory
                  /\ Len(got.state.chat.mem) <= MaxChatHistory
                  /\ Len(got.state.llm.mem) <= MaxChatHistory
                  /\ historyFile' = got.state.file
                  /\ managers' = [managers EXCEPT !["chat"] = got.state.chat,
                                                  !["llm"] = got.state.llm]
                  /\ added' = added
                        \o SubSeq(got.state.llm.mem, Len(llm.mem) + 1,
                                  Len(got.state.llm.mem))
                        \o SubSeq(got.state.file, Len(historyFile) + 1,
                                  Len(got.state.file))
                        \o SubSeq(got.state.chat.mem, Len(chat.mem) + 1,
                                  Len(got.state.chat.mem))
                  /\ last' = [op |-> "process", content |-> content,
                              failAt |-> failAt, exc |-> exc, response |-> response,
                              returned |-> out.returned,
                              propagated |-> out.propagated,
                              afterError |-> AfterError,
                              context |-> got.context,
                              recent |-> recent,
                              fileBefore |-> historyFile,
                              chatBefore |-> Store(chat, historyFile),
                              chatAfter |-> Store(got.state.chat, got.state.file)]
        /\ UNCHANGED memCfg
        /\ UNCHANGED <<configVars, fmtVars, llmVars>>

Next ==
    \/ \E id \in {"manager1", "manager2"} : Manager_init(id)
    \/ \E id \in {"manager1", "manager2"}, content \in Contents,
          response \in Responses :
          AddInteraction(id, content, response)
    \/ \E id \in {"manager1", "manager2"}, query \in Contents,
          n \in 0..MaxContextArg :
          GetRelevantContext(id, query, n)

Spec == Init /\ [][Next]_vars

\* C1: with memory.enabled = false, get_relevant_context returns the empty
\* sequence and add_interaction leaves the memory store unchanged and writes
\* nothing to the history file.
C1_DisabledIsNoop ==
    ~memCfg.enabled =>
        /\ last.op = "ctx" => last.context = <<>>
        /\ last.op = "add" =>
               (last.after = last.before /\ last.fileAfter = last.fileBefore)

\* C7: the recent portion of get_relevant_context(message, max_context = N)
\* holds at most N interactions, for every N >= 0 and every history.
C7_RecentAtMostN ==
    last.op = "ctx" => Len(last.recent) <= last.max_context

\* C8: get_relevant_context(message, max_context = N) returns at most 2*N
\* context entries, recent and relevance-retrieved ones together.
C8_TotalAtMost2N ==
    last.op = "ctx" => Len(last.context) <= 2 * last.max_context

\* C9: with json storage, every manager on the history file loads all the
\* interactions added so far, through itself or through any other manager,
\* before or after it was built: additions persist and remove nothing.
C9_Persistence ==
    memCfg.storage_type = "json" =>
        \A id \in ManagerIds :
            managers[id].alive =>
                load_history(managers[id], historyFile)[1] = added

\* manager2 was built after manager1 had added an interaction, has added
\* one itself, and both are in the history either manager loads
C9_Witness ==
    /\ memCfg.storage_type = "json"
    /\ managers["manager1"].alive /\ managers["manager1"].born = 0
    /\ managers["manager2"].alive /\ managers["manager2"].born = 1
    /\ last.op = "add" /\ last.mgr = "manager2"
    /\ Len(load_history(managers["manager1"], historyFile)[1]) = 2
    /\ load_history(managers["manager2"], historyFile)[1] = added

\* the stored interaction whose entries are at 2i-1 and 2i of the context
\* C17 describes: the i-th of the k recent ones, then the ranked ones
InteractionAt(i, k) ==
    IF i <= k
    THEN last.history[Len(last.history) - k + i]
    ELSE last.history[last.ranked[i - k]]

ClearMemory ==
    LET chat == managers["chat"]
        fresh == GPTMEMemoryManager_init(memCfg, Len(added))
    IN  /\ chat.alive
        /\ last.op # "clear"
        /\ managers' = [managers EXCEPT !["chat"] = fresh]
        /\ last' = [op |-> "clear",
                    before |-> Store(chat, historyFile),
                    after |-> Store(fresh, historyFile)]
        /\ UNCHANGED <<memCfg, historyFile, added>>
        /\ UNCHANGED <<configVars, fmtVars, llmVars>>

NextChat ==
    \/ Chat_init
    \/ ClearMemory
    \/ \E content \in Contents, response \in Responses,
          failAt \in {"none", "context", "provider", "llm_store", "store"},
          exc \in {"none", "Exception", "KeyboardInterrupt"} :
          ProcessMessage(content, failAt, exc, response)

\* the Config the Chat is built with also sets memory.max_context_window
InitChat ==
    /\ ConfigIdle
    /\ memCfg \in [enabled : BOOLEAN, storage_type : {"json", "in_memory"},
                   max_context_window : {1, DefaultMemory.max_context_window}]
    /\ historyFile = <<>>
    /\ managers = [m \in ManagerIds |-> NoManager]
    /\ added = <<>>
    /\ last = [op |-> "none"]
    /\ FormatIdle
    /\ LlmIdle

SpecChat == InitChat /\ [][NextChat]_vars

\* C2: process_message never lets out an exception raised while producing a
\* response (context retrieval, provider completion, memory write-back): it
\* returns "Error processing message: <description>", and the Chat stays
\* usable: a later call in which nothing fails returns the response.
C2_ErrorsBecomeText ==
    last.op = "process" =>
        /\ last.exc = "Exception" =>
               /\ last.propagated = None
               /\ last.returned =
                      Some(<<"Error processing message: ", Describe(last.failAt)>>)
        /\ last.failAt = "none" =>
               /\ last.propagated = None
               /\ last.returned = Some(<<last.response>>)
        /\ managers["chat"].alive

\* a call has returned the error text and the next call the response
C2_Witness ==
    /\ last.op = "process"
    /\ last.afterError
    /\ last.failAt = "none"
    /\ last.returned = Some(<<"r">>)

\* C14: after clear_memory, for json and for in_memory storage and every
\* prior history, get_relevant_context through the Chat contains no
\* interaction recorded before the call.
C14_ClearMemoryStartsFresh ==
    last.op = "clear" =>
        \A ranked \in retrieve_relevant_interactions(
                         load_history(managers["chat"], historyFile)[1], "a",
                         DefaultMemory.similarity_threshold, 0) :
            get_relevant_context(load_history(managers["chat"], historyFile)[1],
                                 DefaultMaxContext, ranked).context = <<>>

\* C15: the number of recent interactions Chat.get_response places in the
\* prompt is at most the configured memory.max_context_window.
C15_WindowControlsChat ==
    last.op = "process" => Len(last.recent) <= memCfg.max_context_window

\* C16: with memory enabled, a successful process_message adds exactly one
\* record to the memory store, whose prompt is the user message's content
\* and whose output is the returned response.
C16_OneRecordPerExchange ==
    (last.op = "process" /\ memCfg.enabled /\ last.failAt = "none") =>
        last.chatAfter =
            Append(last.chatBefore,
                   [prompt |-> Plain(last.content), output |-> Plain(last.response)])

\* C21: whenever process_message returns an error text, the memory store
\* holds exactly the interaction records it held before the call, whichever
\* step failed (context retrieval, provider completion, the write-back).
C21_FailedExchangeLeavesNoRecord ==
    (last.op = "process" /\ last.failAt # "none" /\ last.propagated = None) =>
        /\ last.chatAfter = last.chatBefore
        /\ historyFile = last.fileBefore

-----------------------------------------------------------------------------
(* format_context_for_prompt on every context of up to MaxEntries entries   *)

MaxEntries == 2

Roles == {<<"u", "s", "e", "r">>,
          <<"a", "s", "s", "i", "s", "t", "a", "n", "t">>,
          <<"s", "y", "s", "t", "e", "m">>}

EntryContents == {<<>>, <<"X">>, <<"h", "i", "\n", "U">>}

ContextEntries == [role : Roles, content : EntryContents]

InitFormat ==
    /\ ConfigIdle
    /\ MemoryIdle
    /\ fmtIn \in UNION {[1..n -> ContextEntries] : n \in 0..MaxEntries}
    /\ fmtOut = None
    /\ LlmIdle

\* text = manager.format_context_for_prompt(fmtIn)
FormatContext ==
    /\ fmtOut = None
    /\ fmtOut' = Some([context |-> fmtIn, text |-> format_context_for_prompt(fmtIn)])
    /\ UNCHANGED fmtIn
    /\ UNCHANGED <<configVars, memVars, llmVars>>

NextFormat == FormatContext

SpecFormat == InitFormat /\ [][NextFormat]_vars

\* the role names as the prompt shows them
RoleTitle(role) ==
    CASE role = <<"u", "s", "e", "r">> -> <<"U", "s", "e", "r">>
      [] role = <<"a", "s", "s", "i", "s", "t", "a", "n", "t">> ->
            <<"A", "s", "s", "i", "s", "t", "a", "n", "t">>
      [] role = <<"s", "y", "s", "t", "e", "m">> -> <<"S", "y", "s", "t", "e", "m">>

\* the text the claim C10 describes, built entry by entry from the end
RECURSIVE ExpectedText(_)
ExpectedText(context) ==
    IF context = <<>> THEN <<>>
    ELSE LET n == Len(context)
             line == RoleTitle(context[n].role) \o <<":", " ">> \o context[n].content
         IN  IF n = 1 THEN line
             ELSE ExpectedText(SubSeq(context, 1, n - 1)) \o <<"\n">> \o line

\* C10: format_context_for_prompt returns "" for the empty sequence,
\* "User: X" for [{role: user, content: X}], and in general one line
\* "<Role>: <content>" per entry, joined by newlines in input order; the
\* argument and the memory store are left as they were.
C10_FormatContext ==
    fmtOut # None =>
        /\ fmtOut[1].text = ExpectedText(fmtIn)
        /\ fmtIn = <<>> => fmtOut[1].text = <<>>
        /\ fmtIn = <<[role |-> <<"u", "s", "e", "r">>, content |-> <<"X">>]>> =>
              fmtOut[1].text = <<"U", "s", "e", "r", ":", " ", "X">>
        /\ fmtOut[1].context = fmtIn
        /\ historyFile = <<>>
        /\ \A id \in ManagerIds : managers[id] = NoManager

\* a user entry followed by an assistant entry has been formatted
C10_Witness ==
    /\ fmtOut # None
    /\ fmtIn = <<[role |-> <<"u", "s", "e", "r">>, content |-> <<"X">>],
                 [role |-> <<"a", "s", "s", "i", "s", "t", "a", "n", "t">>,
                  content |-> <<"h", "i", "\n", "U">>]>>
    /\ fmtOut[1].text =
          <<"U", "s", "e", "r", ":", " ", "X", "\n",
            "A", "s", "s", "i", "s", "t", "a", "n", "t", ":", " ",
            "h", "i", "\n", "U">>

-----------------------------------------------------------------------------
(* LLM(Config(model = ...)) over config files that name a model or do not   *)

MaxCompletions == 1

ModelNames ==
    {"", "gpt-4", "gpt-", "gpt4", "GPT-4", "my-gpt-4", "claude-3-opus", "claude",
     "llama-2"}

ProviderFiles ==
    {[status |-> "missing", content |-> EmptyContent],
     [status |-> "malformed", content |-> EmptyContent],
     [status |-> "present", content |-> EmptyContent]}
    \cup {[status |-> "present", content |-> [EmptyContent EXCEPT !.model = Some(m)]] :
             m \in ModelNames}

InitProvider ==
    /\ configFile \in ProviderFiles
    /\ environ = [OPENAI_API_KEY |-> None, ANTHROPIC_API_KEY |-> None]
    /\ DEFAULT_CONFIG = InitialDefaultConfig
    /\ cfg = None
    /\ config_instance = None
    /\ ctorIn = None
    /\ saved = None
    /\ roundTrip = None
    /\ ops = 0
    /\ setCall = None
    /\ MemoryIdle
    /\ FormatIdle
    /\ LlmIdle

\* llm = LLM(Config(model = model))
NewLLM(model) ==
    LET args == [NoArgs EXCEPT !.model = model]
        r == Config_init(args, environ, configFile, DEFAULT_CONFIG)
        sel == LLM_init_provider(r.obj[1].model)
    IN  /\ llmObj.op = "none"
        /\ ~r.raised
        /\ cfg' = r.obj
        /\ ctorIn' = Some([args |-> args, env |-> environ, file |-> configFile,
                           defaults |-> DEFAULT_CONFIG, raised |-> r.raised])
        /\ llmObj' = [op |-> "init", model |-> r.obj[1].model, raised |-> sel.raised,
                      provider |-> sel.provider, completions |-> 0]
        /\ ops' = ops + 1
        /\ setCall' = None
        /\ UNCHANGED <<configFile, environ, DEFAULT_CONFIG, config_instance, saved,
                       roundTrip>>
        /\ UNCHANGED <<memVars, fmtVars, strm, session>>

\* llm.complete(prompt), on the LLM object once it exists
Complete ==
    /\ llmObj.op \in {"init", "complete"}
    /\ llmObj.raised = None
    /\ llmObj.completions < MaxCompletions
    /\ llmObj' = [llmObj EXCEPT !.op = "complete", !.completions = @ + 1]
    /\ UNCHANGED <<configVars, memVars, fmtVars, strm, session>>

NextProvider ==
    \/ \E model \in {None} \cup {Some(m) : m \in ModelNames} : NewLLM(model)
    \/ Complete

SpecProvider == InitProvider /\ [][NextProvider]_vars

\* the provider the claim C11 gives each model name ("none": ValueError)
ExpectedProvider(name) ==
    CASE name \in {"gpt-4", "gpt-"} -> "openai"
      [] name = "claude-3-opus" -> "anthropic"
      [] OTHER -> "none"

\* the LLM object's provider and error are those the claim gives its model
ProviderAsExpected ==
    LET want == ExpectedProvider(llmObj.model)
    IN  IF want = "none"
        THEN /\ llmObj.raised = Some("ValueError")
             /\ llmObj.provider = None
             /\ llmObj.completions = 0
        ELSE /\ llmObj.raised = None
             /\ llmObj.provider = Some(want)

\* a model is configured: passed to Config or named in the config file
ModelConfigured ==
    \/ ctorIn[1].args.model # None
    \/ (ctorIn[1].file.status = "present" /\ ctorIn[1].file.content.model # None)

\* C11 as stated: "gpt-" names select openai, "claude-" names anthropic, and
\* provider selection raises ValueError, before any completion, when the
\* name has neither prefix or no model is configured at all.
C11_ProviderOrError ==
    llmObj.op # "none" =>
        /\ ModelConfigured => ProviderAsExpected
        /\ ~ModelConfigured =>
               /\ llmObj.raised = Some("ValueError")
               /\ llmObj.completions = 0

\* C11 amended: the selection is made on the resolved model name: "gpt-"
\* names select openai, "claude-" names anthropic, an empty name or one with
\* neither prefix raises ValueError before any completion; with no model
\* configured at all the name is the default gpt-4 and openai is selected.
C11_ProviderOfResolvedModel ==
    llmObj.op # "none" =>
        /\ ProviderAsExpected
        /\ ~ModelConfigured =>
               /\ llmObj.model = ctorIn[1].defaults.model
               /\ llmObj.raised = None
               /\ llmObj.provider = Some("openai")

\* LLM(Config(model = "gpt4")) over a file naming a claude model has raised
\* ValueError, and no completion was made
C11_Witness ==
    /\ llmObj.op = "init"
    /\ ctorIn[1].args.model = Some("gpt4")
    /\ ctorIn[1].file.content.model = Some("claude-3-opus")
    /\ llmObj.raised = Some("ValueError")
    /\ llmObj.completions = 0

-----------------------------------------------------------------------------
(* Streaming completions on an LLM object: generators are created, pulled   *)
(* from and abandoned by the consumer.                                      *)

MaxFragments == 2

MaxStreams == 2

Fragments == {<<"h", "i">>, <<"!">>}

\* LLM(config) has been built: it has a manager when memory is enabled
InitLLM ==
    /\ ConfigIdle
    /\ memCfg \in [enabled : BOOLEAN, storage_type : {"json", "in_memory"}]
    /\ historyFile = <<>>
    /\ managers = [id \in ManagerIds |->
                      IF id = "llm" /\ memCfg.enabled
                      THEN GPTMEMemoryManager_init(memCfg, 0)
                      ELSE NoManager]
    /\ added = <<>>
    /\ last = [op |-> "none", streams |-> 0, exhausted |-> 0]
    /\ FormatIdle
    /\ LlmIdle

\* gen = llm.complete(prompt, stream = True)
StartStream(prompt, fragments) ==
    /\ strm.state \in {"none", "done", "closed"}
    /\ last.streams < MaxStreams
    /\ strm' = reply_stream(prompt, fragments)
    /\ last' = [op |-> "start", streams |-> last.streams + 1,
                exhausted |-> last.exhausted]
    /\ UNCHANGED <<memCfg, historyFile, managers, added, llmObj>>
    /\ UNCHANGED <<configVars, fmtVars, session>>

\* next(gen)
Pull ==
    LET r == reply_stream_next(strm, managers["llm"], historyFile)
    IN  /\ strm.state \in {"created", "suspended"}
        /\ strm' = r.gen
        /\ historyFile' = r.file
        /\ managers' = [managers EXCEPT !["llm"] = r.mgr]
        /\ added' = added
              \o SubSeq(r.mgr.mem, Len(managers["llm"].mem) + 1, Len(r.mgr.mem))
              \o SubSeq(r.file, Len(historyFile) + 1, Len(r.file))
        /\ last' = [op |-> "pull", streams |-> last.streams,
                    exhausted |-> last.exhausted
                                    + (IF r.gen.state = "done" THEN 1 ELSE 0)]
        /\ UNCHANGED <<memCfg, llmObj>>
        /\ UNCHANGED <<configVars, fmtVars, session>>

\* the consumer stops pulling: gen.close(), or the generator is dropped
StopPulling ==
    /\ strm.state \in {"created", "suspended"}
    /\ strm' = [strm EXCEPT !.state = "closed"]
    /\ last' = [op |-> "close", streams |-> last.streams,
                exhausted |-> last.exhausted]
    /\ UNCHANGED <<memCfg, historyFile, managers, added, llmObj>>
    /\ UNCHANGED <<configVars, fmtVars, session>>

NextStream ==
    \/ \E prompt \in Contents :
          \E fragments \in UNION {[1..n -> Fragments] : n \in 0..MaxFragments} :
             StartStream(prompt, fragments)
    \/ Pull
    \/ StopPulling

SpecStream == InitLLM /\ [][NextStream]_vars

\* the fragments one after the other, as one text
RECURSIVE Concatenation(_)
Concatenation(fragments) ==
    IF fragments = <<>> THEN <<>>
    ELSE Concatenation(SubSeq(fragments, 1, Len(fragments) - 1))
            \o fragments[Len(fragments)]

\* C12: in streaming mode with memory enabled, the interaction is written
\* back exactly once per stream, when the fragment sequence is exhausted,
\* with the concatenation of all fragments in order as its output; nothing
\* is written per fragment or for a stream the consumer has abandoned.
C12_StreamWriteBack ==
    memCfg.enabled =>
        /\ Len(added) = last.exhausted
        /\ Store(managers["llm"], historyFile) = added
        /\ strm.state = "done" =>
               /\ strm.full_response = strm.fragments
               /\ added[Len(added)] =
                     [prompt |-> Plain(strm.prompt),
                      output |-> Plain(Concatenation(strm.fragments))]

\* a second stream of two fragments has been pulled to exhaustion after a
\* first one was abandoned: one interaction is stored, its output "hi!"
C12_Witness ==
    /\ memCfg.enabled
    /\ last.streams = 2
    /\ last.exhausted = 1
    /\ strm.state = "done"
    /\ strm.fragments = <<(<<"h", "i">>), (<<"!">>)>>
    /\ Len(added) = 1
    /\ added[1].output = Plain(<<"h", "i", "!">>)

-----------------------------------------------------------------------------
(* LLM.summarize on inputs below, at and above the context limit             *)

MaxTokenCount == 3

MaxSummaries == 2

\* llm.summarize(content)
Summarize(content, tokens, context_limit, response) ==
    LET m == managers["llm"]
        r == summarize(content, tokens, context_limit, response, m, historyFile)
    IN  /\ last.streams < MaxSummaries
        /\ historyFile' = r.file
        /\ managers' = [managers EXCEPT !["llm"] = r.mgr]
        /\ added' = added
              \o SubSeq(r.mgr.mem, Len(m.mem) + 1, Len(r.mgr.mem))
              \o SubSeq(r.file, Len(historyFile) + 1, Len(r.file))
        /\ last' = [op |-> "summarize", streams |-> last.streams + 1,
                    exhausted |-> 0, content |-> content, tokens |-> tokens,
                    context_limit |-> context_limit, response |-> response,
                    raised |-> r.raised, returned |-> r.returned, calls |-> r.calls,
                    before |-> Store(m, historyFile), after |-> Store(r.mgr, r.file)]
        /\ UNCHANGED <<memCfg, llmObj, strm>>
        /\ UNCHANGED <<configVars, fmtVars, session>>

NextSummarize ==
    \E content \in Contents, tokens \in 0..MaxTokenCount,
       context_limit \in 1..MaxTokenCount, response \in {"", "r"} :
       Summarize(content, tokens, context_limit, response)

SpecSummarize == InitLLM /\ [][NextSummarize]_vars

\* over the limit: a size-limit error, no provider call, the store as it was
OverLimitFails ==
    last.tokens > last.context_limit =>
        /\ last.raised = Some("ValueError")
        /\ last.returned = None
        /\ last.calls = 0
        /\ last.after = last.before

\* C13 as stated: summarize fails with a size-limit error, without provider
\* call or memory write, whenever the token count exceeds the context limit,
\* and returns the provider's summary when it is within the limit.
C13_SummarizeLimit ==
    last.op = "summarize" =>
        /\ OverLimitFails
        /\ last.tokens <= last.context_limit =>
               /\ last.raised = None
               /\ last.returned = Some(last.response)

\* C13 amended: within the limit the provider's summary is returned when it
\* is not empty; an empty summary raises AssertionError, after the provider
\* call and the memory write-back.
C13_SummarizeLimitNonEmpty ==
    last.op = "summarize" =>
        /\ OverLimitFails
        /\ (last.tokens <= last.context_limit /\ last.response # "") =>
               /\ last.raised = None
               /\ last.returned = Some(last.response)
               /\ last.calls = 1
        /\ (last.tokens <= last.context_limit /\ last.response = "") =>
               /\ last.raised = Some("AssertionError")
               /\ last.returned = None
               /\ last.calls = 1

\* with memory enabled, a summarize over the limit has failed after one
\* within the limit had stored its interaction: the store still holds one
C13_Witness ==
    /\ memCfg.enabled
    /\ last.op = "summarize"
    /\ last.tokens = 3 /\ last.context_limit = 2
    /\ last.raised = Some("ValueError")
    /\ Len(last.before) = 1
    /\ last.after = last.before

-----------------------------------------------------------------------------
(* chat(...) called with message lists, the interactive flag and an input   *)

MaxMsgs == 2

MaxLines == 2

Msgs == {"m1", "m2"}

MsgLists == UNION {[1..n -> Msgs] : n \in 0..MaxMsgs}

InputEvents ==
    [kind : {"line"}, text : {"", "hi"}, fails : BOOLEAN, interrupted : BOOLEAN]
    \cup {[kind |-> "interrupt", text |-> "", fails |-> FALSE, interrupted |-> FALSE]}

InitSession ==
    /\ ConfigIdle
    /\ MemoryIdle
    /\ FormatIdle
    /\ LlmIdle

\* chat(prompt_msgs, initial_msgs, ..., interactive = interactive, ...)
CallChat(prompt_msgs, initial_msgs, interactive, stdin) ==
    LET r == chat_one_shot(prompt_msgs, initial_msgs, interactive, stdin)
    IN  /\ session.op = "none"
        /\ session' = [op |-> "chat", prompt_msgs |-> prompt_msgs,
                       initial_msgs |-> initial_msgs, interactive |-> interactive,
                       stdin |-> stdin, raised |-> r.raised,
                       dispatched |-> r.dispatched, printed |-> r.printed,
                       entered_loop |-> r.entered_loop]
        /\ UNCHANGED <<llmObj, strm>>
        /\ UNCHANGED <<configVars, memVars, fmtVars>>

NextSession ==
    \E prompt_msgs \in MsgLists, initial_msgs \in MsgLists, interactive \in BOOLEAN :
       \E stdin \in UNION {[1..n -> InputEvents] : n \in 0..MaxLines} :
          CallChat(prompt_msgs, initial_msgs, interactive, stdin)

SpecSession == InitSession /\ [][NextSession]_vars

\* C18: chat(prompt_msgs, initial_msgs, ...) dispatches every message of
\* initial_msgs in list order, then every message of prompt_msgs in list
\* order, each once, and enters the interactive loop iff interactive is true.
C18_ReplayInOrder ==
    session.op = "chat" =>
        /\ session.raised = None
        /\ SubSeq(session.dispatched, 1,
                  Len(session.initial_msgs) + Len(session.prompt_msgs))
              = session.initial_msgs \o session.prompt_msgs
        /\ session.entered_loop = session.interactive

\* the positions of the input whose line is read and is not blank: every
\* event before is a line that was not interrupted
NonBlankRead ==
    {i \in 1..Len(session.stdin) :
        /\ session.stdin[i].kind = "line"
        /\ session.stdin[i].text # ""
        /\ \A j \in 1..(i - 1) :
              /\ session.stdin[j].kind = "line"
              /\ ~(session.stdin[j].text # "" /\ session.stdin[j].interrupted)}

\* C19: in the interactive loop every non-blank input line is dispatched
\* once and its response printed before the next line is read, a blank line
\* causes no dispatch, the loop ends on end-of-input or interrupt (also one
\* arriving while a response is produced), and a failed completion does not
\* end it.
C19_InteractiveLoop ==
    (session.op = "chat" /\ session.interactive) =>
        /\ session.raised = None
        /\ session.entered_loop
        /\ Len(session.dispatched) =
              Len(session.initial_msgs) + Len(session.prompt_msgs)
                 + Cardinality(NonBlankRead)
        /\ Len(session.printed) =
              Cardinality({i \in NonBlankRead : ~session.stdin[i].interrupted})

====
